---- MODULE Spec2Model ----
(***************************************************************************)
(* DailyScry: a model of the budgeted paginator (util.rs split_text), of   *)
(* the Mastodon thread publisher (mastodon/mod.rs post), of the Telegram   *)
(* publisher (telegram/mod.rs post), of the run that drives them (main.rs   *)
(* main), of the renderer (format.rs format_card, get_artist) and of the   *)
(* card picker (card/mod.rs random_card).                                  *)
(*                                                                         *)
(* A Rust String is modelled as a sequence of characters; a character is a *)
(* token whose UTF-8 width is given by Utf8Len, so that String::len (a     *)
(* byte count) and a count of characters are different things, and a byte  *)
(* slice that ends inside a character panics, as it does in Rust.          *)
(***************************************************************************)
EXTENDS Integers, Sequences, FiniteSets, TLC

VARIABLES
    fmt,    \* a call of format_card and of get_artist on a card (SpecFormat)
    rand,   \* a call of random_card on a card getter (SpecRandom)
    split,  \* a call of split_text on its own (SpecSplit)
    input,  \* what a run is given: command line, configuration, card, build
    main,   \* main.rs main: where the run is and how it ended
    masto,  \* the locals of mastodon::post
    tg,     \* the locals of telegram::post, one record per attachment future
    net     \* what the channels have received: uploads, statuses, messages

vars == <<fmt, rand, split, input, main, masto, tg, net>>

\* ------------------------------------------------------------------------
\* Strings
\* ------------------------------------------------------------------------

\* The character the paginator appends: the literal in util.rs line 36 is
\* U+2026, three bytes in UTF-8.
ELLIPSIS == "ELLIPSIS"

\* A two-byte character (U+00E9), as artist names and card texts hold.
EACUTE == "EACUTE"

\* Width in bytes of the UTF-8 encoding of a character.
Utf8Len(c) ==
    CASE c = ELLIPSIS -> 3
      [] c = EACUTE -> 2
      [] OTHER -> 1

RECURSIVE ByteLen(_)
\* String::len: the length of a string in bytes.
ByteLen(s) ==
    IF s = <<>> THEN 0 ELSE Utf8Len(Head(s)) + ByteLen(Tail(s))

\* chars().count(): the length of a string in characters.
CharLen(s) == Len(s)

\* str::is_char_boundary: byte offset k falls between two characters of s.
IsCharBoundary(s, k) ==
    \E i \in 0..Len(s) : ByteLen(SubSeq(s, 1, i)) = k

\* The number of characters of s that end at byte offset k (a boundary).
CharsBefore(s, k) ==
    CHOOSE i \in 0..Len(s) : ByteLen(SubSeq(s, 1, i)) = k

\* &s[..k]: defined when k is a character boundary of s, a panic otherwise.
SliceTo(s, k) == SubSeq(s, 1, CharsBefore(s, k))

\* &s[k..]: defined when k is a character boundary of s, a panic otherwise.
SliceFrom(s, k) == SubSeq(s, CharsBefore(s, k) + 1, Len(s))

RECURSIVE Join(_, _)
\* [String]::join(sep)
Join(strs, sep) ==
    IF strs = <<>> THEN <<>>
    ELSE IF Len(strs) = 1 THEN strs[1]
    ELSE strs[1] \o sep \o Join(Tail(strs), sep)

\* ------------------------------------------------------------------------
\* usize arithmetic
\* ------------------------------------------------------------------------

\* The width of usize kept by the model.  The build targets have 64 bits;
\* the model checker's integers have 32, so the wrap-around is kept at a
\* narrower width that is still far above every length of the model.
UsizeBits == 16

UsizeModulus == 2 ^ UsizeBits

\* a - b on usize.  With overflow checks (a debug build) an underflow
\* panics; without them (a release build) it wraps around.
UsizeSub(a, b, overflow_checks) ==
    IF a >= b THEN [panic |-> FALSE, value |-> a - b]
    ELSE IF overflow_checks THEN [panic |-> TRUE, value |-> 0]
    ELSE [panic |-> FALSE, value |-> UsizeModulus - (b - a)]

\* ------------------------------------------------------------------------
\* util.rs: split_text
\* ------------------------------------------------------------------------

\* enum Additional
Text(s) == [kind |-> "Text", text |-> s, number |-> 0]
Number(n) == [kind |-> "Number", text |-> <<>>, number |-> n]

\* The mutant of ReservedLen: a Number reservation reserves nothing.
ReservedLenTextOnly(additional) ==
    IF additional.kind = "Text" THEN ByteLen(additional.text) ELSE 0

\* The closure of lines 19-22: what one reservation reserves.
ReservedLen(additional) ==
    IF additional.kind = "Text"
    THEN ByteLen(additional.text)
    ELSE additional.number

RECURSIVE FoldReserved(_, _)
\* .fold(0, |accumulator, number| accumulator + number), left to right
FoldReserved(accumulator, additional_texts) ==
    IF additional_texts = <<>> THEN accumulator
    ELSE FoldReserved(accumulator + ReservedLen(Head(additional_texts)),
                      Tail(additional_texts))

\* let character_already_used = ...
CharacterAlreadyUsed(additional_texts) == FoldReserved(0, additional_texts)

\* The state of split_text when it reaches its loop: lines 17-27.
SplitEnter(text, character_limit, additional_texts, overflow_checks) ==
    LET character_already_used == CharacterAlreadyUsed(additional_texts)
        diff == UsizeSub(character_limit, character_already_used,
                         overflow_checks)
    IN  [pc |-> IF diff.panic THEN "panicked" ELSE "loop",
         number_of_characters |-> diff.value,
         texts |-> <<>>,
         text_to_split |-> text]

\* The mutant of SplitIterate: the fit test is > where the code has >=.
SplitIterateStrictFit(s, overflow_checks) ==
    LET n == s.number_of_characters
        len == ByteLen(s.text_to_split)
        cut == UsizeSub(n, 1, overflow_checks)
    IN  IF ~(len > 0) THEN [s EXCEPT !.pc = "returned"]
        ELSE IF n > len
        THEN [s EXCEPT !.pc = "returned",
                       !.texts = Append(@, s.text_to_split)]
        ELSE IF cut.panic \/ cut.value > len
                \/ ~IsCharBoundary(s.text_to_split, cut.value)
        THEN [s EXCEPT !.pc = "panicked"]
        ELSE [s EXCEPT
                !.texts = Append(@, SliceTo(s.text_to_split, cut.value)
                                    \o <<ELLIPSIS>>),
                !.text_to_split = SliceFrom(s.text_to_split, cut.value)]

\* The mutant of SplitIterate: a chunk takes number_of_characters bytes of
\* the source, not number_of_characters - 1, before the ellipsis.
SplitIterateFullWidth(s, overflow_checks) ==
    LET n == s.number_of_characters
        len == ByteLen(s.text_to_split)
    IN  IF ~(len > 0) THEN [s EXCEPT !.pc = "returned"]
        ELSE IF n >= len
        THEN [s EXCEPT !.pc = "returned",
                       !.texts = Append(@, s.text_to_split)]
        ELSE IF n > len \/ ~IsCharBoundary(s.text_to_split, n)
        THEN [s EXCEPT !.pc = "panicked"]
        ELSE [s EXCEPT
                !.texts = Append(@, SliceTo(s.text_to_split, n)
                                    \o <<ELLIPSIS>>),
                !.text_to_split = SliceFrom(s.text_to_split, n)]

\* The mutant of SplitIterate: the loop has no test for an empty rest, so
\* an empty text is pushed as a chunk.
SplitIterateNoEmptyTest(s, overflow_checks) ==
    LET n == s.number_of_characters
        len == ByteLen(s.text_to_split)
        cut == UsizeSub(n, 1, overflow_checks)
    IN  IF n >= len
        THEN [s EXCEPT !.pc = "returned",
                       !.texts = Append(@, s.text_to_split)]
        ELSE IF cut.panic \/ cut.value > len
                \/ ~IsCharBoundary(s.text_to_split, cut.value)
        THEN [s EXCEPT !.pc = "panicked"]
        ELSE [s EXCEPT
                !.texts = Append(@, SliceTo(s.text_to_split, cut.value)
                                    \o <<ELLIPSIS>>),
                !.text_to_split = SliceFrom(s.text_to_split, cut.value)]

\* The mutant of SplitIterate: the rest starts at number_of_characters, one
\* byte after the end of the chunk.
SplitIterateSkipsOne(s, overflow_checks) ==
    LET n == s.number_of_characters
        len == ByteLen(s.text_to_split)
        cut == UsizeSub(n, 1, overflow_checks)
    IN  IF ~(len > 0) THEN [s EXCEPT !.pc = "returned"]
        ELSE IF n >= len
        THEN [s EXCEPT !.pc = "returned",
                       !.texts = Append(@, s.text_to_split)]
        ELSE IF cut.panic \/ cut.value > len
                \/ ~IsCharBoundary(s.text_to_split, cut.value)
                \/ ~IsCharBoundary(s.text_to_split, n)
        THEN [s EXCEPT !.pc = "panicked"]
        ELSE [s EXCEPT
                !.texts = Append(@, SliceTo(s.text_to_split, cut.value)
                                    \o <<ELLIPSIS>>),
                !.text_to_split = SliceFrom(s.text_to_split, n)]

\* One evaluation of the loop condition and, when it holds, of the loop
\* body: lines 28-39.  number_of_characters - 1 underflows when the width
\* is 0; the slices panic when the offset is beyond the string or inside a
\* character.
SplitIterate(s, overflow_checks) ==
    LET n == s.number_of_characters
        len == ByteLen(s.text_to_split)
        cut == UsizeSub(n, 1, overflow_checks)
    IN  IF ~(len > 0) THEN [s EXCEPT !.pc = "returned"]
        ELSE IF n >= len
        THEN [s EXCEPT !.pc = "returned",
                       !.texts = Append(@, s.text_to_split)]
        ELSE IF cut.panic \/ cut.value > len
                \/ ~IsCharBoundary(s.text_to_split, cut.value)
        THEN [s EXCEPT !.pc = "panicked"]
        ELSE [s EXCEPT
                !.texts = Append(@, SliceTo(s.text_to_split, cut.value)
                                    \o <<ELLIPSIS>>),
                !.text_to_split = SliceFrom(s.text_to_split, cut.value)]

RECURSIVE SplitRun(_, _, _)
\* The loop run for at most `turns` evaluations of its condition.
SplitRun(s, overflow_checks, turns) ==
    IF s.pc # "loop" \/ turns = 0 THEN s
    ELSE SplitRun(SplitIterate(s, overflow_checks), overflow_checks,
                  turns - 1)

\* split_text as a function of its arguments.  A loop turn that neither
\* returns nor panics consumes number_of_characters - 1 bytes; when that is
\* at least one byte the loop ends within ByteLen(text) + 1 turns, so a
\* result still in the loop after that many turns is a call that never
\* returns (pc = "loop").
SplitText(text, character_limit, additional_texts, overflow_checks) ==
    SplitRun(SplitEnter(text, character_limit, additional_texts,
                        overflow_checks),
             overflow_checks, ByteLen(text) + 1)

\* ------------------------------------------------------------------------
\* The paginator on its own: split_text applied to bounded inputs
\* ------------------------------------------------------------------------

MaxTextLen == 3
MaxLimit == 10
MaxReservations == 2
\* The loop of a call that never returns is followed for this many chunks.
MaxChunks == 11

Alphabet == {"a", EACUTE, ELLIPSIS}

SeqsUpTo(S, n) == UNION {[1..k -> S] : k \in 0..n}

\* The text of the unit tests of util.rs.
TestText == <<"0", "1", "2", "3", "4", "5", "6", "7", "8", "9">>

SplitTexts == SeqsUpTo(Alphabet, MaxTextLen) \cup {TestText}

SplitLimits == 0..MaxLimit

SplitReservations ==
    {Text(<<"a">>), Text(<<EACUTE>>), Number(3), Number(4)}

SplitReservationLists == SeqsUpTo(SplitReservations, MaxReservations)

InitSplit ==
    /\ \E text \in SplitTexts, character_limit \in SplitLimits,
       additional_texts \in SplitReservationLists,
       overflow_checks \in BOOLEAN :
            split = [pc |-> "start",
                 text |-> text,
                 character_limit |-> character_limit,
                 additional_texts |-> additional_texts,
                 overflow_checks |-> overflow_checks,
                 number_of_characters |-> 0,
                 texts |-> <<>>,
                 text_to_split |-> <<>>]
    /\ input = <<>> /\ main = <<>> /\ masto = <<>> /\ tg = <<>>
    /\ net = <<>> /\ fmt = <<>> /\ rand = <<>>

\* The call reaches its loop, or panics in the subtraction of line 24.
SplitStart ==
    /\ split.pc = "start"
    /\ LET s == SplitEnter(split.text, split.character_limit,
                           split.additional_texts, split.overflow_checks)
       IN  split' = [split EXCEPT
                        !.pc = s.pc,
                        !.number_of_characters = s.number_of_characters,
                        !.texts = s.texts,
                        !.text_to_split = s.text_to_split]
    /\ UNCHANGED <<fmt, rand, input, main, masto, tg, net>>

\* One turn of the loop.
SplitLoop ==
    /\ split.pc = "loop"
    /\ Len(split.texts) < MaxChunks
    /\ LET s == SplitIterate(
                    [pc |-> split.pc,
                     number_of_characters |-> split.number_of_characters,
                     texts |-> split.texts,
                     text_to_split |-> split.text_to_split],
                    split.overflow_checks)
       IN  split' = [split EXCEPT
                        !.pc = s.pc,
                        !.texts = s.texts,
                        !.text_to_split = s.text_to_split]
    /\ UNCHANGED <<fmt, rand, input, main, masto, tg, net>>

NextSplit == SplitStart \/ SplitLoop

SpecSplit == InitSplit /\ [][NextSplit]_vars

\* ------------------------------------------------------------------------
\* Properties of the paginator (checked under SpecSplit)
\* ------------------------------------------------------------------------

\* The available width of a call: limit minus total reserved, lengths
\* measured as split_text measures them (String::len).
SplitWidth == split.character_limit
              - CharacterAlreadyUsed(split.additional_texts)

RECURSIVE Concat(_)
Concat(strs) == IF strs = <<>> THEN <<>> ELSE Head(strs) \o Concat(Tail(strs))

\* A chunk without its last character.
ChunkBody(chunk) == SubSeq(chunk, 1, Len(chunk) - 1)

\* The source characters of the chunks: every chunk but the last without
\* its final character, the last chunk whole.
ChunkSources(chunks) ==
    [i \in 1..Len(chunks) |->
        IF i < Len(chunks) THEN ChunkBody(chunks[i]) ELSE chunks[i]]

\* C7: when the available width is at least 1, every chunk split_text
\* returns has at most available-width characters, every chunk but the
\* last ends with the one ellipsis appended to a slice of the source, and
\* the last chunk is the rest of the source with nothing appended.
C7_ChunksFitAndEllipsis ==
    (split.pc = "returned" /\ SplitWidth >= 1) =>
        /\ \A i \in 1..Len(split.texts) :
            /\ CharLen(split.texts[i]) <= SplitWidth
            /\ i < Len(split.texts) =>
                /\ Len(split.texts[i]) >= 1
                /\ split.texts[i][Len(split.texts[i])] = ELLIPSIS
        /\ Concat(ChunkSources(split.texts)) = split.text

\* C7 witness: a call with width >= 1 has returned three or more chunks.
C7_Witness ==
    /\ split.pc = "returned"
    /\ SplitWidth >= 1
    /\ Len(split.texts) >= 3

\* The precondition of C8: a non-empty text no longer than the width.
TextFits ==
    /\ ByteLen(split.text) > 0
    /\ ByteLen(split.text) <= SplitWidth

C9_BudgetExhaustedSignalled ==
    (SplitWidth <= 0 /\ split.pc # "start") => split.pc = "error"

RECURSIVE SumOver(_, _)
\* The sum of f over the index set I.
SumOver(f, I) ==
    IF I = {} THEN 0
    ELSE LET i == CHOOSE j \in I : TRUE IN f[i] + SumOver(f, I \ {i})

\* The reserved total as the claim states it: the bytes of the Text
\* reservations plus the numbers of the Number reservations, in no order.
ReservedTotal(additional_texts) ==
    LET texts_ == {i \in DOMAIN additional_texts :
                        additional_texts[i].kind = "Text"}
        numbers_ == {i \in DOMAIN additional_texts :
                        additional_texts[i].kind = "Number"}
    IN  SumOver([i \in texts_ |-> ByteLen(additional_texts[i].text)], texts_)
        + SumOver([i \in numbers_ |-> additional_texts[i].number], numbers_)

ScalarReservedTotal(additional_texts) ==
    LET texts_ == {i \in DOMAIN additional_texts :
                        additional_texts[i].kind = "Text"}
        numbers_ == {i \in DOMAIN additional_texts :
                        additional_texts[i].kind = "Number"}
    IN  SumOver([i \in texts_ |-> CharLen(additional_texts[i].text)], texts_)
        + SumOver([i \in numbers_ |-> additional_texts[i].number], numbers_)

\* C11: split_text measures every length in Unicode scalars: with a width
\* of two or more scalars left by the limit and the reservations, a Text
\* reservation reserves its number of scalars, every chunk but the last
\* holds exactly width - 1 scalars of the source, and the call does not
\* panic, whatever multi-byte characters the text and the reservations
\* hold.
C11_LengthsInScalars ==
    LET width == split.character_limit
                 - ScalarReservedTotal(split.additional_texts)
    IN  (width >= 2 /\ split.pc # "start") =>
            /\ split.pc # "panicked"
            /\ split.number_of_characters = width
            /\ \A i \in 1..(Len(split.texts) - 1) :
                CharLen(ChunkBody(split.texts[i])) = width - 1

\* C12: split_text applied to the empty text, with an available width of
\* at least 1, returns the empty chunk list: the call does not panic,
\* pushes no chunk, and leaves its loop at the first test.
C12_EmptyTextNoChunks ==
    (split.text = <<>> /\ SplitWidth >= 1 /\ split.pc # "start") =>
        /\ split.pc \in {"loop", "returned"}
        /\ split.texts = <<>>
        /\ split.text_to_split = <<>>

\* C12 witness: a call on the empty text under reservations has returned
\* the empty list.
C12_Witness ==
    /\ split.pc = "returned"
    /\ split.text = <<>>
    /\ split.additional_texts # <<>>
    /\ SplitWidth >= 1
    /\ split.texts = <<>>

\* ------------------------------------------------------------------------
\* Values
\* ------------------------------------------------------------------------

\* Option<T>
None == [some |-> FALSE, value |-> <<>>]
Some(v) == [some |-> TRUE, value |-> v]

\* Option<usize>::None
NoNumber == [some |-> FALSE, value |-> 0]

\* Option<String>::unwrap_or_default
UnwrapOrDefault(option) == IF option.some THEN option.value ELSE <<>>

\* Result<T>; a panic of the callee is carried as the error "panic".
Ok(v) == [ok |-> TRUE, value |-> v, error |-> "none"]
Err(e) == [ok |-> FALSE, value |-> <<>>, error |-> e]

Min(a, b) == IF a <= b THEN a ELSE b

NL == "NL"

\* ------------------------------------------------------------------------
\* format.rs and image.rs
\* ------------------------------------------------------------------------

TAB == "TAB"

\* str::contains: sub occurs in s.
Contains(s, sub) ==
    \E k \in 0..(Len(s) - Len(sub)) : SubSeq(s, k + 1, k + Len(sub)) = sub

NormalLayouts ==
    {"Normal", "Meld", "Leveler", "Class", "Saga", "Prototype", "Host",
     "Augment", "Token", "Emblem", "Mutate", "Planar", "Scheme", "Vanguard",
     "Case"}

SingleImageMultipleFacesLayouts == {"Split", "Flip", "Adventure"}

MultipleFacesLayouts ==
    {"Transform", "ModalDfc", "ReversibleCard", "DoubleFacedToken",
     "ArtSeries"}

\* The words the type line is searched for.
CreatureType == <<"C", "r", "e", "a", "t", "u", "r", "e">>
PlaneswalkerType == <<"P", "l", "a", "n", "e", "s", "w", "a", "l", "k", "e", "r">>
VanguardType == <<"V", "a", "n", "g", "u", "a", "r", "d">>
InstantType == <<"I", "n", "s", "t", "a", "n", "t">>
SorceryType == <<"S", "o", "r", "c", "e", "r", "y">>
ArtifactType == <<"A", "r", "t", "i", "f", "a", "c", "t">>
EnchantmentType == <<"E", "n", "c", "h", "a", "n", "t", "m", "e", "n", "t">>
LandType == <<"L", "a", "n", "d">>
PhenomenonType == <<"P", "h", "e", "n", "o", "m", "e", "n", "o", "n">>
PlaneType == <<"P", "l", "a", "n", "e">>
SchemeType == <<"S", "c", "h", "e", "m", "e">>
EmblemType == <<"E", "m", "b", "l", "e", "m">>
BattleType == <<"B", "a", "t", "t", "l", "e">>
TokenType == <<"T", "o", "k", "e", "n">>
CardType == <<"C", "a", "r", "d">>

\* The types of lines 116-125, for a card.
CardNonCreatureTypes ==
    {InstantType, SorceryType, ArtifactType, EnchantmentType, LandType,
     PhenomenonType, PlaneType, SchemeType, EmblemType, BattleType}

\* The types of lines 158-164, for a face.
FaceNonCreatureTypes ==
    {InstantType, SorceryType, ArtifactType, EnchantmentType, LandType,
     EmblemType, BattleType}

\* enum CardOrFace
CardOrFaceCard(card) == [kind |-> "Card", of |-> card]
CardOrFaceFace(face) == [kind |-> "Face", of |-> face]

\* fn name_and_mana_cost: the name, then a tab and the mana cost when the
\* mana cost is not empty.  The mana cost of a card is an Option, that of
\* a face a String.
NameAndManaCost(card_or_face) ==
    LET mana_cost == IF card_or_face.kind = "Card"
                     THEN UnwrapOrDefault(card_or_face.of.mana_cost)
                     ELSE card_or_face.of.mana_cost
    IN  card_or_face.of.name
        \o (IF mana_cost # <<>> THEN <<TAB>> \o mana_cost ELSE <<>>)

\* fn type_line: "\n{}"
TypeLine(card_or_face) ==
    <<NL>> \o UnwrapOrDefault(card_or_face.of.type_line)

\* fn oracle_text: "\n{}" when the oracle text is not empty.
OracleText(card_or_face) ==
    LET oracle_text == UnwrapOrDefault(card_or_face.of.oracle_text)
    IN  IF oracle_text # <<>> THEN <<NL>> \o oracle_text ELSE <<>>

\* fn flavour_text: "\n\n{}" when the flavour text is present.
FlavourText(card_or_face) ==
    IF card_or_face.of.flavor_text.some
    THEN <<NL, NL>> \o card_or_face.of.flavor_text.value
    ELSE <<>>

\* fn power_and_toughness: "\n\n{}/{}"
PowerAndToughness(card_or_face) ==
    <<NL, NL>> \o UnwrapOrDefault(card_or_face.of.power) \o <<"/">>
    \o UnwrapOrDefault(card_or_face.of.toughness)

\* fn artist: "\n\nIllustrated by {}" when the artist is present.
ArtistLine(artist) ==
    IF artist.some
    THEN <<NL, NL, "I", "l", "l", "u", "s", "t", "r", "a", "t", "e", "d",
           " ", "b", "y", " ">> \o artist.value
    ELSE <<>>

\* fn artist, of a card or of a face.
Artist(card_or_face) == ArtistLine(card_or_face.of.artist)

\* fn loyalty: "\nLoyalty: {}" when the loyalty is present.
Loyalty(card_or_face) ==
    IF card_or_face.of.loyalty.some
    THEN <<NL, "L", "o", "y", "a", "l", "t", "y", ":", " ">>
         \o card_or_face.of.loyalty.value
    ELSE <<>>

\* fn vanguard_stats: nothing for a face; for a card the two modifiers when
\* both are present.
VanguardStats(card_or_face) ==
    IF card_or_face.kind = "Face" THEN <<>>
    ELSE IF card_or_face.of.hand_modifier.some
            /\ card_or_face.of.life_modifier.some
    THEN <<NL, NL, "H", "a", "n", "d", " ", "S", "i", "z", "e", ":", " ">>
         \o card_or_face.of.hand_modifier.value
         \o <<NL, "S", "t", "a", "r", "t", "i", "n", "g", " ", "L", "i", "f", "e", ":", " ">>
         \o card_or_face.of.life_modifier.value
    ELSE <<>>

\* The mutant of FormatCreature: power and toughness before the flavour
\* text.
FormatCreaturePowerFirst(card_or_face) ==
    NameAndManaCost(card_or_face) \o TypeLine(card_or_face)
    \o OracleText(card_or_face) \o PowerAndToughness(card_or_face)
    \o FlavourText(card_or_face)

FormatCreature(card_or_face) ==
    NameAndManaCost(card_or_face) \o TypeLine(card_or_face)
    \o OracleText(card_or_face) \o FlavourText(card_or_face)
    \o PowerAndToughness(card_or_face)

FormatNonCreature(card_or_face) ==
    NameAndManaCost(card_or_face) \o TypeLine(card_or_face)
    \o OracleText(card_or_face) \o FlavourText(card_or_face)

FormatPlaneswalker(card_or_face) ==
    NameAndManaCost(card_or_face) \o TypeLine(card_or_face)
    \o OracleText(card_or_face) \o Loyalty(card_or_face)

FormatToken(card_or_face) ==
    NameAndManaCost(card_or_face) \o TypeLine(card_or_face)

FormatVanguard(card_or_face) ==
    NameAndManaCost(card_or_face) \o TypeLine(card_or_face)
    \o OracleText(card_or_face) \o VanguardStats(card_or_face)
    \o FlavourText(card_or_face)

FormatArtCard(card_or_face) ==
    NameAndManaCost(card_or_face) \o TypeLine(card_or_face)

\* format_normal_layout: the Creature and the Planeswalker branch return;
\* the Vanguard, the non-creature and the Token branch each append to the
\* same builder, and the artist line follows.  The unwrap of line 92
\* panics on a card without type line.
FormatNormalLayout(card) ==
    IF ~card.type_line.some THEN Err("panic")
    ELSE
    LET type_line == card.type_line.value
        card_or_face == CardOrFaceCard(card)
    IN  IF Contains(type_line, CreatureType)
        THEN Ok(<<FormatCreature(card_or_face) \o Artist(card_or_face)>>)
        ELSE IF Contains(type_line, PlaneswalkerType)
        THEN Ok(<<FormatPlaneswalker(card_or_face)
                  \o Artist(card_or_face)>>)
        ELSE Ok(<<(IF Contains(type_line, VanguardType)
                   THEN FormatVanguard(card_or_face) ELSE <<>>)
                  \o (IF \E t \in CardNonCreatureTypes :
                            Contains(type_line, t)
                      THEN FormatNonCreature(card_or_face) ELSE <<>>)
                  \o (IF type_line = TokenType
                      THEN FormatToken(card_or_face) ELSE <<>>)
                  \o Artist(card_or_face)>>)

\* The closure of lines 145-178: the block of one face, without artist
\* line.  Only the Creature branch returns.
FormatFace(face) ==
    IF ~face.type_line.some THEN Err("panic")
    ELSE
    LET type_line == face.type_line.value
        card_or_face == CardOrFaceFace(face)
    IN  IF Contains(type_line, CreatureType)
        THEN Ok(FormatCreature(card_or_face))
        ELSE Ok((IF Contains(type_line, PlaneswalkerType)
                 THEN FormatPlaneswalker(card_or_face) ELSE <<>>)
                \o (IF \E t \in FaceNonCreatureTypes :
                            Contains(type_line, t)
                    THEN FormatNonCreature(card_or_face) ELSE <<>>)
                \o (IF type_line = TokenType
                    THEN FormatToken(card_or_face) ELSE <<>>)
                \o (IF type_line = CardType
                    THEN FormatArtCard(card_or_face) ELSE <<>>))

\* format_multiple_faces_layout: one block per face, in the order of the
\* faces.  The unwrap of line 142 panics on a card without faces.
FormatMultipleFacesLayout(card) ==
    IF ~card.card_faces.some THEN Err("panic")
    ELSE
    LET faces == card.card_faces.value
        blocks == [i \in 1..Len(faces) |-> FormatFace(faces[i])]
    IN  IF \E i \in 1..Len(faces) : ~blocks[i].ok THEN Err("panic")
        ELSE Ok([i \in 1..Len(faces) |-> blocks[i].value])

\* The mutant of FormatSingleImageMultipleFacesLayout: the artist line is
\* that of the first face.
FormatSingleImageFirstFaceArtist(card) ==
    LET faces == FormatMultipleFacesLayout(card)
    IN  IF ~faces.ok THEN faces
        ELSE Ok(<<Join(faces.value, <<NL, NL>>)
                  \o Artist(CardOrFaceFace(card.card_faces.value[1]))>>)

\* format_single_image_multiple_faces_layout: the blocks of the faces
\* joined by "\n\n", then the artist line of the card.
FormatSingleImageMultipleFacesLayout(card) ==
    LET faces == FormatMultipleFacesLayout(card)
    IN  IF ~faces.ok THEN faces
        ELSE Ok(<<Join(faces.value, <<NL, NL>>)
                  \o Artist(CardOrFaceCard(card))>>)

\* The mutant of FormatCard: a layout that is not listed is rendered as a
\* normal one.
FormatCardDefaulting(card) ==
    IF card.layout \in SingleImageMultipleFacesLayouts
    THEN FormatSingleImageMultipleFacesLayout(card)
    ELSE IF card.layout \in MultipleFacesLayouts
    THEN FormatMultipleFacesLayout(card)
    ELSE FormatNormalLayout(card)

\* format_card: the display strings of a card, by layout.
FormatCard(card) ==
    IF card.layout \in NormalLayouts
    THEN FormatNormalLayout(card)
    ELSE IF card.layout \in SingleImageMultipleFacesLayouts
    THEN FormatSingleImageMultipleFacesLayout(card)
    ELSE IF card.layout \in MultipleFacesLayouts
    THEN FormatMultipleFacesLayout(card)
    ELSE Err("UnknownCardLayout")

\* The mutant of GetArtist: the credit is that of the card.
GetArtistOfCard(card) ==
    IF card.layout \in MultipleFacesLayouts
    THEN IF ~card.card_faces.some \/ card.card_faces.value = <<>>
         THEN Err("panic")
         ELSE Ok(Some(Artist(CardOrFaceCard(card))))
    ELSE Ok(None)

\* get_artist: the credit of the first face for the layouts with one image
\* per face, nothing for the others.  The unwrap of line 77 panics on a
\* card without faces, faces[0] on an empty list of faces.
GetArtist(card) ==
    IF card.layout \in MultipleFacesLayouts
    THEN IF ~card.card_faces.some \/ card.card_faces.value = <<>>
         THEN Err("panic")
         ELSE Ok(Some(Artist(CardOrFaceFace(card.card_faces.value[1]))))
    ELSE Ok(None)

\* download_images when every download succeeds: one path for the layouts
\* with one image, one path per face for the others.
ImagePaths(card) ==
    IF card.layout \in NormalLayouts \cup SingleImageMultipleFacesLayouts
    THEN Ok(<<"test.png">>)
    ELSE IF card.layout \in MultipleFacesLayouts
    THEN IF ~card.card_faces.some THEN Err("panic")
         ELSE Ok([i \in 1..Len(card.card_faces.value) |-> <<"face", i>>])
    ELSE Err("ImageNotFound")

\* ------------------------------------------------------------------------
\* config/mod.rs
\* ------------------------------------------------------------------------

CheckMastodonConfig(config) ==
    IF ~config.mastodon_url.some THEN Err("ReadConfiguration")
    ELSE IF ~config.mastodon_access_token.some THEN Err("ReadConfiguration")
    ELSE IF ~config.mastodon_character_limit.some
    THEN Err("ReadConfiguration")
    ELSE Ok(<<>>)

CheckTelegramConfig(config) ==
    IF ~config.telegram_token.some THEN Err("ReadConfiguration")
    ELSE IF ~config.telegram_chat_id.some THEN Err("ReadConfiguration")
    ELSE IF ~config.telegram_character_limit.some
    THEN Err("ReadConfiguration")
    ELSE Ok(<<>>)

\* ------------------------------------------------------------------------
\* The inputs of a run
\* ------------------------------------------------------------------------

Uri == <<"u", "r", "i">>

\* scryfall::card::CardFace as far as format.rs reads it.
CardFace(name, mana_cost, type_line, artist) ==
    [name |-> name, mana_cost |-> mana_cost, type_line |-> type_line,
     oracle_text |-> None, flavor_text |-> None, power |-> None,
     toughness |-> None, loyalty |-> None, artist |-> artist]

\* scryfall::card::Card as far as the program reads it.
Card(layout, name, mana_cost, type_line, artist, card_faces) ==
    [layout |-> layout, name |-> name, mana_cost |-> mana_cost,
     type_line |-> type_line, oracle_text |-> None, flavor_text |-> None,
     power |-> None, toughness |-> None, loyalty |-> None,
     hand_modifier |-> None, life_modifier |-> None, artist |-> artist,
     card_faces |-> card_faces, oracle_id |-> Some(<<"i", "1">>),
     content_warning |-> FALSE, scryfall_uri |-> Uri]

\* A type line that matches no category of format.rs.
ConspiracyType == <<"C", "o", "n", "s", "p", "i", "r", "a", "c", "y">>

\* The cards of a run: a land; a land with a two-byte character in its
\* name; a split card; a transforming card whose faces have different
\* artists; a card of a layout format_card does not list; a card whose
\* type line matches no category and that has no artist.
Cards ==
    { Card("Normal", <<"a">>, None, Some(LandType), None, None),
      Card("Normal", <<"a", EACUTE>>, None, Some(LandType), None, None),
      Card("Split", <<"a", "b">>, None, None, None,
           Some(<<CardFace(<<"a">>, <<>>, Some(LandType), None),
                  CardFace(<<"b">>, <<>>, Some(LandType), None)>>)),
      Card("Transform", <<"a", "b">>, None, None, Some(<<"X">>),
           Some(<<CardFace(<<"a">>, <<>>, Some(LandType), Some(<<"X">>)),
                  CardFace(<<"b">>, <<>>, Some(LandType), Some(<<"Y">>))>>)),
      Card("Battle", <<"a">>, None, Some(BattleType), None, None),
      Card("Normal", <<"a">>, None, Some(ConspiracyType), None, None) }

\* DailyScryConfig as far as the publishers read it.
Config(mastodon_character_limit, telegram_character_limit) ==
    [mastodon_url |-> Some(<<"m">>),
     mastodon_access_token |-> Some(<<"t">>),
     mastodon_character_limit |-> mastodon_character_limit,
     telegram_token |-> Some(<<"t">>),
     telegram_chat_id |-> Some(<<"c">>),
     telegram_character_limit |-> telegram_character_limit]

\* The limits a run is configured with: the defaults of load_config, 500
\* and 4096, and small ones that make a text take several chunks, leave a
\* width of 1 or 0, or fall below the reserved total.
MastodonLimits == {55, 56, 58, 75, 500}
TelegramLimits == {2, 3, 19, 21, 4096}

Configs ==
    { Config(Some(m), Some(t)) : m \in MastodonLimits, t \in TelegramLimits }
    \cup { [Config(Some(500), Some(4096)) EXCEPT ![k] = None] :
            k \in {"mastodon_url", "mastodon_access_token",
                   "telegram_token", "telegram_chat_id"} }
    \cup { Config(NoNumber, Some(4096)), Config(Some(500), NoNumber) }

\* CLIConfig
CLIConfigs == [mastodon : BOOLEAN, telegram : BOOLEAN, dry_run : BOOLEAN]

\* ------------------------------------------------------------------------
\* main.rs: main
\* ------------------------------------------------------------------------

MastoIdle ==
    [pc |-> "idle", artist |-> <<>>, splitted_texts |-> <<>>,
     uploads |-> <<>>, reply_id |-> <<>>, results |-> <<>>, next |-> 0,
     result |-> Err("none")]

TgIdle == [pc |-> "idle", futures |-> <<>>, result |-> Err("none")]

Init ==
    /\ \E cli \in CLIConfigs, config \in Configs, card \in Cards,
          overflow_checks \in BOOLEAN :
            input = [cli |-> cli, config |-> config, card |-> card,
                     overflow_checks |-> overflow_checks]
    /\ main = [pc |-> "random_card", outcome |-> "running",
               failure |-> "none", card_texts |-> <<>>, artist |-> None,
               image_paths |-> <<>>]
    /\ masto = MastoIdle
    /\ tg = TgIdle
    /\ net = [media |-> <<>>, statuses |-> <<>>, photos |-> <<>>,
              messages |-> <<>>]
    /\ split = <<>> /\ fmt = <<>> /\ rand = <<>>

\* The run ends: main returns (outcome "ok" or "err"), the process exits
\* (process::exit), panics, or hangs in a loop that never ends.
Finish(m, outcome, failure) ==
    [m EXCEPT !.pc = "finished", !.outcome = outcome, !.failure = failure]

\* telegram::post up to its join_all: one future per (image, text) pair,
\* each of which starts with send_image.
TelegramFutures(m) ==
    [i \in 1..Min(Len(m.image_paths), Len(m.card_texts)) |->
        [pc |-> "send_image", splitted_texts |-> <<>>, next |-> 0]]

\* main.rs lines 71-83, from main record m: the Telegram block and the
\* end of main.
TelegramBlock(m) ==
    IF ~input.cli.telegram
    THEN main' = Finish(m, "ok", "none") /\ tg' = tg
    ELSE IF ~CheckTelegramConfig(input.config).ok
    THEN main' = Finish(m, "err", "check_telegram_config") /\ tg' = tg
    ELSE IF TelegramFutures(m) = <<>>
    THEN /\ main' = Finish(m, "ok", "none")
         /\ tg' = [tg EXCEPT !.pc = "returned", !.result = Ok(<<>>)]
    ELSE /\ main' = [m EXCEPT !.pc = "telegram_post"]
         /\ tg' = [tg EXCEPT !.pc = "join_all",
                             !.futures = TelegramFutures(m)]

\* main.rs lines 59-69, from main record m: the Mastodon block up to the
\* first await of mastodon::post (verify_account_credentials).
MastodonBlock(m) ==
    IF ~input.cli.mastodon
    THEN TelegramBlock(m) /\ masto' = masto
    ELSE IF ~CheckMastodonConfig(input.config).ok
    THEN /\ main' = Finish(m, "err", "check_mastodon_config")
         /\ masto' = masto /\ tg' = tg
    ELSE /\ main' = [m EXCEPT !.pc = "mastodon_post"]
         /\ masto' = [masto EXCEPT !.pc = "create_client"]
         /\ tg' = tg

\* The mutant of MainRandomCard: the dry-run flag is not looked at.
MainRandomCardNoDryRun ==
    /\ main.pc = "random_card"
    /\ \E fetched \in BOOLEAN :
        LET card_texts == FormatCard(input.card)
            artist == GetArtist(input.card)
        IN  main' =
            IF ~fetched THEN Finish(main, "err", "random_card")
            ELSE IF card_texts.error = "panic"
            THEN Finish(main, "panic", "format_card")
            ELSE IF ~card_texts.ok THEN Finish(main, "exit1", "format_card")
            ELSE IF artist.error = "panic"
            THEN Finish(main, "panic", "get_artist")
            ELSE IF ~artist.ok THEN Finish(main, "err", "get_artist")
            ELSE LET m == [main EXCEPT !.card_texts = card_texts.value,
                                       !.artist = artist.value]
                 IN  IF ~input.cli.mastodon /\ ~input.cli.telegram
                     THEN Finish(m, "ok", "none")
                     ELSE [m EXCEPT !.pc = "download_image"]
    /\ UNCHANGED <<fmt, rand, split, input, masto, tg, net>>

\* random_card returns; main runs to its next await (download_image) or to
\* its end: lines 34-57.
MainRandomCard ==
    /\ main.pc = "random_card"
    /\ \E fetched \in BOOLEAN :
        LET card_texts == FormatCard(input.card)
            artist == GetArtist(input.card)
        IN  main' =
            IF ~fetched THEN Finish(main, "err", "random_card")
            ELSE IF card_texts.error = "panic"
            THEN Finish(main, "panic", "format_card")
            ELSE IF ~card_texts.ok THEN Finish(main, "exit1", "format_card")
            ELSE IF artist.error = "panic"
            THEN Finish(main, "panic", "get_artist")
            ELSE IF ~artist.ok THEN Finish(main, "err", "get_artist")
            ELSE LET m == [main EXCEPT !.card_texts = card_texts.value,
                                       !.artist = artist.value]
                 IN  IF ~input.cli.mastodon /\ ~input.cli.telegram
                     THEN Finish(m, "ok", "none")
                     ELSE IF input.cli.dry_run
                     THEN Finish(m, "exit0", "none")
                     ELSE [m EXCEPT !.pc = "download_image"]
    /\ UNCHANGED <<fmt, rand, split, input, masto, tg, net>>

\* download_image returns; main runs to the first await of a publisher or
\* to its end: lines 57-83.  A failed download of a single image is an
\* error; a failed download of a face image is unwrapped and panics.
MainDownloadImage ==
    /\ main.pc = "download_image"
    /\ \E downloaded \in BOOLEAN :
        LET image_paths == ImagePaths(input.card)
        IN  IF ~downloaded
            THEN /\ main' =
                    IF input.card.layout \in MultipleFacesLayouts
                    THEN Finish(main, "panic", "download_images")
                    ELSE Finish(main, "err", "download_images")
                 /\ UNCHANGED <<masto, tg>>
            ELSE IF ~image_paths.ok
            THEN /\ main' = Finish(main,
                        IF image_paths.error = "panic" THEN "panic"
                        ELSE "err", "download_images")
                 /\ UNCHANGED <<masto, tg>>
            ELSE MastodonBlock([main EXCEPT
                                    !.image_paths = image_paths.value])
    /\ UNCHANGED <<fmt, rand, split, input, net>>

\* ------------------------------------------------------------------------
\* mastodon/mod.rs: post
\* ------------------------------------------------------------------------

\* "\n#MagicTheGathering #DailyScry"
Hashtags ==
    <<NL, "#", "M", "a", "g", "i", "c", "T", "h", "e", "G", "a", "t", "h",
      "e", "r", "i", "n", "g", " ", "#", "D", "a", "i", "l", "y", "S", "c",
      "r", "y">>

\* Additional::Number(23): what Mastodon counts for a link.
LinkReserved == 23

\* let text = card_texts.join("\n")
MastodonText(card_texts) == Join(card_texts, <<NL>>)

\* let artist = format!("\n{}", artist.unwrap_or_default())
MastodonArtist(artist) == <<NL>> \o UnwrapOrDefault(artist)

\* The reservations of lines 32-36.
MastodonReservations(artist) ==
    <<Text(Hashtags), Text(MastodonArtist(artist)), Number(LinkReserved)>>

\* The mutant of Status: the artist is left out.
StatusNoArtist(splitted_text, artist, link) ==
    splitted_text \o link \o Hashtags

\* format!("{}{}{}{}", splitted_text, artist, link, hashtags)
Status(splitted_text, artist, link) ==
    splitted_text \o artist \o link \o Hashtags

\* The mutant of ReplyIdOf: the arms of the match are swapped.
ReplyIdOfSwapped(output) ==
    IF output.kind = "Status" THEN <<>> ELSE output.id

\* The match of lines 55-58 and 67-70: the id of a published status, the
\* empty string for a scheduled one.
ReplyIdOf(output) ==
    IF output.kind = "Status" THEN output.id ELSE <<>>

\* What the server answers to a post_status call it accepts.  The options
\* of lines 161-168 leave scheduled_at unset, so the answer is a published
\* status; its id is new.
PostStatusOutput(n) == [kind |-> "Status", id |-> <<"status", n>>]

\* A post_status call as the server sees it, and what became of it.
PostStatusCall(status, media_ids, in_reply_to_id) ==
    [status |-> status, media_ids |-> media_ids,
     in_reply_to_id |-> in_reply_to_id, state |-> "in_flight", id |-> <<>>]

\* The mutant of PostAwaited: a call is issued without awaiting the last.
PostNotAwaited == TRUE

\* .await on post_status: no call of the thread is in flight.
PostAwaited ==
    \A i \in 1..Len(net.statuses) : net.statuses[i].state # "in_flight"

\* The mutant of UploadsJoined: the join is over as soon as one upload is.
UploadsJoinedAny ==
    \E i \in 1..Len(masto.uploads) :
        masto.uploads[i].state \in {"done", "failed"}

\* join_all(...).await: every upload future has completed.
UploadsJoined ==
    \A i \in 1..Len(masto.uploads) :
        masto.uploads[i].state \in {"done", "failed"}

\* The ids of the uploads that have succeeded, in the order of the images.
MediaIds ==
    LET done == {i \in 1..Len(masto.uploads) :
                    masto.uploads[i].state = "done"}
        F[i \in 0..Len(masto.uploads)] ==
            IF i = 0 THEN <<>>
            ELSE IF i \in done THEN Append(F[i - 1], masto.uploads[i].id)
            ELSE F[i - 1]
    IN  F[Len(masto.uploads)]

\* verify_account_credentials returns; post runs to join_all: lines 23-44.
MastodonCreateClient ==
    /\ main.pc = "mastodon_post"
    /\ masto.pc = "create_client"
    /\ \E verified \in BOOLEAN :
        LET artist == MastodonArtist(main.artist)
            s == SplitText(MastodonText(main.card_texts),
                           input.config.mastodon_character_limit.value,
                           MastodonReservations(main.artist),
                           input.overflow_checks)
        IN  IF ~verified
            THEN /\ masto' = [masto EXCEPT !.pc = "returned",
                                    !.result = Err("MegalodonError")]
                 /\ main' = Finish(main, "err", "create_client")
            ELSE IF s.pc = "panicked"
            THEN /\ masto' = [masto EXCEPT !.pc = "panicked"]
                 /\ main' = Finish(main, "panic", "split_text")
            ELSE IF s.pc = "loop"
            THEN /\ masto' = [masto EXCEPT !.pc = "split_text"]
                 /\ main' = Finish(main, "hang", "split_text")
            ELSE /\ masto' = [masto EXCEPT
                        !.pc = "join_all",
                        !.artist = artist,
                        !.splitted_texts = s.texts,
                        !.uploads =
                            [i \in 1..Min(Len(main.image_paths),
                                          Len(main.card_texts)) |->
                                [state |-> "upload_media", id |-> <<>>]]]
                 /\ main' = main
    /\ UNCHANGED <<fmt, rand, split, input, tg, net>>

\* upload_media_file, the upload_media call of future i: lines 120-147.
MastodonUploadMedia(i) ==
    /\ main.pc = "mastodon_post"
    /\ masto.pc = "join_all"
    /\ masto.uploads[i].state = "upload_media"
    /\ \E response \in {"Attachment", "AsyncAttachment", "Err"} :
        IF response = "Err"
        THEN /\ masto' = [masto EXCEPT !.uploads[i].state = "failed"]
             /\ net' = net
        ELSE /\ net' = [net EXCEPT !.media = Append(@,
                            [file |-> main.image_paths[i],
                             description |-> main.card_texts[i]])]
             /\ masto' = [masto EXCEPT
                    !.uploads[i].id = <<"media", Len(net.media) + 1>>,
                    !.uploads[i].state =
                        IF response = "Attachment" THEN "done"
                        ELSE "wait_until_uploaded"]
    /\ UNCHANGED <<fmt, rand, split, input, main, tg>>

\* wait_until_uploaded, one get_media call of future i: lines 100-112.
MastodonGetMedia(i) ==
    /\ main.pc = "mastodon_post"
    /\ masto.pc = "join_all"
    /\ masto.uploads[i].state = "wait_until_uploaded"
    /\ \E response \in {"Ok", "HTTPPartialContentError", "Err"} :
        masto' = [masto EXCEPT !.uploads[i].state =
                    IF response = "Ok" THEN "done"
                    ELSE IF response = "HTTPPartialContentError" THEN @
                    ELSE "failed"]
    /\ UNCHANGED <<fmt, rand, split, input, main, tg, net>>

\* join_all returns; the results are collected and the first status is
\* built: lines 44-49.
MastodonJoined ==
    /\ main.pc = "mastodon_post"
    /\ masto.pc = "join_all"
    /\ UploadsJoined
    /\ IF \E i \in 1..Len(masto.uploads) : masto.uploads[i].state = "failed"
       THEN /\ masto' = [masto EXCEPT !.pc = "returned",
                                      !.result = Err("MegalodonError")]
            /\ main' = Finish(main, "err", "upload_media_file")
       ELSE IF masto.splitted_texts = <<>>
       THEN /\ masto' = [masto EXCEPT !.pc = "panicked"]
            /\ main' = Finish(main, "panic", "splitted_texts[0]")
       ELSE /\ masto' = [masto EXCEPT !.pc = "post_status", !.next = 1]
            /\ main' = main
    /\ UNCHANGED <<fmt, rand, split, input, tg, net>>

\* The next post_status call is issued: the root with the media ids and no
\* parent (line 51), a reply with the parent reply_id (line 64).
MastodonPostStatus ==
    /\ main.pc = "mastodon_post"
    /\ masto.pc = "post_status"
    /\ PostAwaited
    /\ masto.next <= Len(masto.splitted_texts)
    /\ net' = [net EXCEPT !.statuses = Append(@,
                PostStatusCall(
                    Status(masto.splitted_texts[masto.next], masto.artist,
                           input.card.scryfall_uri),
                    IF masto.next = 1 THEN Some(MediaIds) ELSE None,
                    IF masto.next = 1 THEN None
                    ELSE Some(masto.reply_id)))]
    /\ masto' = [masto EXCEPT !.next = @ + 1]
    /\ UNCHANGED <<fmt, rand, split, input, main, tg>>

\* The mutant of MastodonPostStatusReturn: a failed call is skipped and
\* the thread goes on with the next chunk.
MastodonPostStatusReturnSkip ==
    /\ main.pc = "mastodon_post"
    /\ masto.pc = "post_status"
    /\ net.statuses # <<>>
    /\ net.statuses[Len(net.statuses)].state = "in_flight"
    /\ \E posted \in BOOLEAN :
        LET n == Len(net.statuses)
            output == PostStatusOutput(n)
        IN  IF ~posted
            THEN /\ net' = [net EXCEPT !.statuses[n].state = "failed"]
                 /\ masto' = masto
                 /\ main' = main
            ELSE /\ net' = [net EXCEPT !.statuses[n].state = "created",
                                       !.statuses[n].id = output.id]
                 /\ masto' = [masto EXCEPT
                                !.reply_id = ReplyIdOf(output),
                                !.results = Append(@, output)]
                 /\ main' = main
    /\ UNCHANGED <<fmt, rand, split, input, tg>>

\* The post_status call in flight returns: lines 51-60 and 64-71.  An
\* error leaves post through `?`; the results so far are dropped.
MastodonPostStatusReturn ==
    /\ main.pc = "mastodon_post"
    /\ masto.pc = "post_status"
    /\ net.statuses # <<>>
    /\ net.statuses[Len(net.statuses)].state = "in_flight"
    /\ \E posted \in BOOLEAN :
        LET n == Len(net.statuses)
            output == PostStatusOutput(n)
        IN  IF ~posted
            THEN /\ net' = [net EXCEPT !.statuses[n].state = "failed"]
                 /\ masto' = [masto EXCEPT !.pc = "returned",
                                    !.result = Err("MegalodonError")]
                 /\ main' = Finish(main, "err", "post_status")
            ELSE /\ net' = [net EXCEPT !.statuses[n].state = "created",
                                       !.statuses[n].id = output.id]
                 /\ masto' = [masto EXCEPT
                                !.reply_id = ReplyIdOf(output),
                                !.results = Append(@, output)]
                 /\ main' = main
    /\ UNCHANGED <<fmt, rand, split, input, tg>>

\* Every chunk is posted: post returns Ok(results), line 74, and main goes
\* on to its Telegram block.
MastodonReturn ==
    /\ main.pc = "mastodon_post"
    /\ masto.pc = "post_status"
    /\ PostAwaited
    /\ masto.next > Len(masto.splitted_texts)
    /\ masto' = [masto EXCEPT !.pc = "returned",
                              !.result = Ok(masto.results)]
    /\ TelegramBlock(main)
    /\ UNCHANGED <<fmt, rand, split, input, net>>

\* ------------------------------------------------------------------------
\* telegram/mod.rs: post
\* ------------------------------------------------------------------------

\* send_image of future i returns; map_function splits its text and issues
\* the first send_message: lines 61-69.
TelegramSendImage(i) ==
    /\ main.pc = "telegram_post"
    /\ tg.pc = "join_all"
    /\ tg.futures[i].pc = "send_image"
    /\ \E sent \in BOOLEAN :
        LET artist == UnwrapOrDefault(main.artist)
            s == SplitText(main.card_texts[i],
                           input.config.telegram_character_limit.value,
                           <<Text(artist)>>, input.overflow_checks)
        IN  IF ~sent
            THEN /\ tg' = [tg EXCEPT !.futures[i].pc = "err"]
                 /\ UNCHANGED <<main, net>>
            ELSE /\ net' = [net EXCEPT !.photos = Append(@,
                                [file |-> main.image_paths[i],
                                 caption |-> input.card.scryfall_uri])]
                 /\ IF s.pc = "panicked"
                    THEN /\ tg' = [tg EXCEPT !.pc = "panicked"]
                         /\ main' = Finish(main, "panic", "split_text")
                    ELSE IF s.pc = "loop"
                    THEN /\ tg' = [tg EXCEPT !.pc = "split_text"]
                         /\ main' = Finish(main, "hang", "split_text")
                    ELSE /\ tg' = [tg EXCEPT !.futures[i] =
                                [pc |-> IF s.texts = <<>> THEN "ok"
                                        ELSE "send_message",
                                 splitted_texts |-> s.texts,
                                 next |-> 1]]
                         /\ main' = main
    /\ UNCHANGED <<fmt, rand, split, input, masto>>

\* The mutant of TelegramSendMessage: a failed send_message is skipped and
\* the loop goes on with the next chunk.
TelegramSendMessageSkip(i) ==
    /\ main.pc = "telegram_post"
    /\ tg.pc = "join_all"
    /\ tg.futures[i].pc = "send_message"
    /\ \E sent \in BOOLEAN :
        LET f == tg.futures[i]
        IN  /\ net' = IF ~sent THEN net
                      ELSE [net EXCEPT !.messages = Append(@,
                                [attachment |-> i,
                                 text |-> f.splitted_texts[f.next]
                                          \o UnwrapOrDefault(main.artist)])]
            /\ tg' = [tg EXCEPT
                        !.futures[i].next = @ + 1,
                        !.futures[i].pc =
                            IF f.next + 1 > Len(f.splitted_texts)
                            THEN "ok" ELSE "send_message"]
    /\ UNCHANGED <<fmt, rand, split, input, main, masto>>

\* send_message of future i returns; the loop of lines 68-70 issues the
\* next one or ends.
TelegramSendMessage(i) ==
    /\ main.pc = "telegram_post"
    /\ tg.pc = "join_all"
    /\ tg.futures[i].pc = "send_message"
    /\ \E sent \in BOOLEAN :
        LET f == tg.futures[i]
        IN  IF ~sent
            THEN /\ tg' = [tg EXCEPT !.futures[i].pc = "err"]
                 /\ net' = net
            ELSE /\ net' = [net EXCEPT !.messages = Append(@,
                                [attachment |-> i,
                                 text |-> f.splitted_texts[f.next]
                                          \o UnwrapOrDefault(main.artist)])]
                 /\ tg' = [tg EXCEPT
                        !.futures[i].next = @ + 1,
                        !.futures[i].pc =
                            IF f.next + 1 > Len(f.splitted_texts)
                            THEN "ok" ELSE "send_message"]
    /\ UNCHANGED <<fmt, rand, split, input, main, masto>>

\* join_all returns; post returns the first error or Ok: lines 45-49, and
\* main ends.
TelegramJoined ==
    /\ main.pc = "telegram_post"
    /\ tg.pc = "join_all"
    /\ \A i \in 1..Len(tg.futures) : tg.futures[i].pc \in {"ok", "err"}
    /\ IF \E i \in 1..Len(tg.futures) : tg.futures[i].pc = "err"
       THEN /\ tg' = [tg EXCEPT !.pc = "returned",
                                !.result = Err("TeloxideError")]
            /\ main' = Finish(main, "err", "telegram_post")
       ELSE /\ tg' = [tg EXCEPT !.pc = "returned", !.result = Ok(<<>>)]
            /\ main' = Finish(main, "ok", "none")
    /\ UNCHANGED <<fmt, rand, split, input, masto, net>>

\* The futures a card can have: one per image.
Futures == 1..2

Next ==
    \/ MainRandomCard
    \/ MainDownloadImage
    \/ MastodonCreateClient
    \/ \E i \in Futures : i <= Len(masto.uploads) /\ MastodonUploadMedia(i)
    \/ \E i \in Futures : i <= Len(masto.uploads) /\ MastodonGetMedia(i)
    \/ MastodonJoined
    \/ MastodonPostStatus
    \/ MastodonPostStatusReturn
    \/ MastodonReturn
    \/ \E i \in Futures : i <= Len(tg.futures) /\ TelegramSendImage(i)
    \/ \E i \in Futures : i <= Len(tg.futures) /\ TelegramSendMessage(i)
    \/ TelegramJoined

Spec == Init /\ [][Next]_vars

\* ------------------------------------------------------------------------
\* The renderer on its own: format_card and get_artist applied to bounded
\* cards
\* ------------------------------------------------------------------------

\* The faces of a card are at most this many.
MaxFaces == 2

ManaCost == <<"{", "1", "}">>

\* The name of the card and the names of its faces, all different.
CardName == <<"n", "0">>
FaceName(i) == <<"n", <<"1", "2", "3", "4">>[i]>>

\* A type line of a card that matches the test of line 112 and that of
\* line 118, and one of a face that matches those of lines 154 and 160.
ArtifactVanguard == ArtifactType \o <<" ">> \o VanguardType
ArtifactPlaneswalker == ArtifactType \o <<" ">> \o PlaneswalkerType

\* Type lines: one per category of format.rs, one that matches none and
\* one that matches two.
CardTypeLines ==
    {CreatureType, PlaneswalkerType, VanguardType, InstantType, TokenType,
     ConspiracyType, ArtifactVanguard}

FaceTypeLines ==
    {CreatureType, PlaneswalkerType, InstantType, TokenType, CardType,
     ConspiracyType, ArtifactPlaneswalker}

\* Cards without faces, of every layout format_normal_layout renders and
\* of one layout format_card does not list.
SingleFaceCards ==
    { [Card(layout, CardName, mana_cost, Some(type_line), artist, None)
            EXCEPT !.oracle_text = oracle_text,
                   !.flavor_text = flavor_text,
                   !.power = Some(<<"2">>), !.toughness = Some(<<"3">>),
                   !.loyalty = Some(<<"4">>),
                   !.hand_modifier = Some(<<"+", "1">>),
                   !.life_modifier = Some(<<"+", "5">>)] :
        layout \in NormalLayouts \cup {"Battle"},
        mana_cost \in {None, Some(<<>>), Some(ManaCost)},
        type_line \in CardTypeLines,
        artist \in {None, Some(<<"Z">>)},
        oracle_text \in {None, Some(<<"o">>)},
        flavor_text \in {None, Some(<<"f">>)} }

\* The faces a card can have at position i: the first with or without a
\* mana cost and an artist, the others with a mana cost and an artist of
\* their own.
FacesAt(i) ==
    { [CardFace(FaceName(i), mana_cost, Some(type_line), artist)
            EXCEPT !.oracle_text = Some(<<"o">>),
                   !.power = Some(<<"2">>), !.toughness = Some(<<"3">>),
                   !.loyalty = Some(<<"4">>)] :
        mana_cost \in IF i = 1 THEN {<<>>, ManaCost} ELSE {ManaCost},
        type_line \in FaceTypeLines,
        artist \in IF i = 1 THEN {None, Some(<<"X">>)} ELSE {Some(<<"Y">>)} }

\* The lists of k faces, face i taken from FacesAt(i).
RECURSIVE FaceListsOf(_)
FaceListsOf(k) ==
    IF k = 0 THEN {<<>>}
    ELSE {Append(faces, face) : faces \in FaceListsOf(k - 1),
                                face \in FacesAt(k)}

FaceLists == UNION {FaceListsOf(k) : k \in 1..MaxFaces}

\* Cards of the layouts with faces, with a list of faces or without one.
MultipleFacesCards ==
    { Card(layout, CardName, None, None, artist, card_faces) :
        layout \in SingleImageMultipleFacesLayouts \cup MultipleFacesLayouts,
        artist \in {None, Some(<<"Z">>)},
        card_faces \in {None} \cup {Some(faces) : faces \in FaceLists} }

\* A result that is not there yet.
NotCalled == Err("none")

InitFormat ==
    /\ \E card \in SingleFaceCards \cup MultipleFacesCards :
            fmt = [card |-> card, card_texts |-> NotCalled,
                   artist |-> NotCalled]
    /\ rand = <<>> /\ split = <<>> /\ input = <<>> /\ main = <<>>
    /\ masto = <<>> /\ tg = <<>> /\ net = <<>>

\* format_card(&card) is called and returns or panics.
FormatCardCall ==
    /\ fmt.card_texts = NotCalled
    /\ fmt' = [fmt EXCEPT !.card_texts = FormatCard(fmt.card)]
    /\ UNCHANGED <<rand, split, input, main, masto, tg, net>>

\* get_artist(&card) is called and returns or panics.
GetArtistCall ==
    /\ fmt.artist = NotCalled
    /\ fmt' = [fmt EXCEPT !.artist = GetArtist(fmt.card)]
    /\ UNCHANGED <<rand, split, input, main, masto, tg, net>>

NextFormat == FormatCardCall \/ GetArtistCall

SpecFormat == InitFormat /\ [][NextFormat]_vars

\* ------------------------------------------------------------------------
\* card/mod.rs: random_card, on a getter that serves a bounded sequence
\* ------------------------------------------------------------------------

\* The getter serves at most this many cards.
MaxCards == 3

OracleIds == {<<"i", "1">>, <<"i", "2">>}

\* IgnoredOracleIdFilter::filter
IgnoredOracleIdFilter(config, card) ==
    IF ~card.oracle_id.some THEN TRUE
    ELSE IF ~config.ignored_oracle_ids.some THEN TRUE
    ELSE ~(\E i \in 1..Len(config.ignored_oracle_ids.value) :
                config.ignored_oracle_ids.value[i] = card.oracle_id.value)

\* ContentWarningFilter::filter
ContentWarningFilter(config, card) == ~card.content_warning

\* filter_results.all(|(filtered, _)| filtered)
AllFilters(config, card) ==
    /\ IgnoredOracleIdFilter(config, card)
    /\ ContentWarningFilter(config, card)

\* The cards a getter can serve.
RandomCards ==
    { [Card("Normal", CardName, None, Some(LandType), None, None)
            EXCEPT !.oracle_id = oracle_id,
                   !.content_warning = content_warning] :
        oracle_id \in {None} \cup {Some(id) : id \in OracleIds},
        content_warning \in BOOLEAN }

\* What get_random_card answers: a card, or the error of the request.
GetterAnswers == {Ok(card) : card \in RandomCards} \cup {Err("ScryfallError")}

\* ignored_oracle_ids of the configuration.
IgnoredOracleIds ==
    {None, Some(<<>>), Some(<<<<"i", "1">>>>),
     Some(<<<<"i", "1">>, <<"i", "2">>>>)}

InitRandom ==
    /\ \E answers \in SeqsUpTo(GetterAnswers, MaxCards),
          ignored_oracle_ids \in IgnoredOracleIds,
          trace_enabled \in BOOLEAN :
            rand = [pc |-> "get_random_card",
                    config |-> [ignored_oracle_ids |-> ignored_oracle_ids],
                    answers |-> answers,
                    trace_enabled |-> trace_enabled,
                    call_index |-> 0,
                    card |-> None,
                    result |-> NotCalled]
    /\ fmt = <<>> /\ split = <<>> /\ input = <<>> /\ main = <<>>
    /\ masto = <<>> /\ tg = <<>> /\ net = <<>>

\* get_random_card().await? of line 31: the getter serves its next answer;
\* a getter that has served all its answers returns an error, as the
\* getter of the tests does.  An error leaves random_card through `?`.
RandomCardGet ==
    /\ rand.pc = "get_random_card"
    /\ IF rand.call_index >= Len(rand.answers)
       THEN rand' = [rand EXCEPT !.pc = "returned",
                                 !.result = Err("ScryfallError")]
       ELSE LET answer == rand.answers[rand.call_index + 1]
            IN  IF ~answer.ok
                THEN rand' = [rand EXCEPT !.pc = "returned",
                                          !.call_index = @ + 1,
                                          !.result = answer]
                ELSE rand' = [rand EXCEPT !.pc = "filter",
                                          !.call_index = @ + 1,
                                          !.card = Some(answer.value)]
    /\ UNCHANGED <<fmt, split, input, main, masto, tg, net>>

\* Lines 33-58: the filters are applied to the card; when all accept it
\* the loop ends and the card is returned, after the trace! of line 56,
\* whose argument card.oracle_id.unwrap() is evaluated, and panics on a
\* card without oracle id, when the trace level is enabled.
RandomCardFilter ==
    /\ rand.pc = "filter"
    /\ LET card == rand.card.value
       IN  IF ~AllFilters(rand.config, card)
           THEN rand' = [rand EXCEPT !.pc = "get_random_card"]
           ELSE IF rand.trace_enabled /\ ~card.oracle_id.some
           THEN rand' = [rand EXCEPT !.pc = "panicked"]
           ELSE rand' = [rand EXCEPT !.pc = "returned",
                                     !.result = Ok(card)]
    /\ UNCHANGED <<fmt, split, input, main, masto, tg, net>>

NextRandom == RandomCardGet \/ RandomCardFilter

SpecRandom == InitRandom /\ [][NextRandom]_vars

\* ------------------------------------------------------------------------
\* Properties of the publishers and of the run (checked under Spec)
\* ------------------------------------------------------------------------

\* The post_status calls of the thread that have returned an id.
Created == {i \in 1..Len(net.statuses) : net.statuses[i].state = "created"}

\* The post_status calls of the thread that have failed.
Failed == {i \in 1..Len(net.statuses) : net.statuses[i].state = "failed"}

IsPrefix(p, s) == Len(p) <= Len(s) /\ SubSeq(s, 1, Len(p)) = p

\* C1: when mastodon::post has returned Ok for a plan of k >= 1 chunks, it
\* has issued exactly k post_status calls, call i carrying chunk i; the
\* first is the root (media ids, no parent) and every other one is a reply
\* (no media) whose parent is the id the call before it returned.
C1_ThreadOrdering ==
    (masto.pc = "returned" /\ masto.result.ok) =>
        LET k == Len(masto.splitted_texts)
        IN  /\ k >= 1
            /\ Len(net.statuses) = k
            /\ Created = 1..k
            /\ \A i \in 1..k :
                IsPrefix(masto.splitted_texts[i], net.statuses[i].status)
            /\ net.statuses[1].in_reply_to_id = None
            /\ net.statuses[1].media_ids.some
            /\ \A i \in 2..k :
                /\ net.statuses[i].media_ids = None
                /\ net.statuses[i].in_reply_to_id
                    = Some(net.statuses[i - 1].id)
                /\ \A j \in 1..(i - 1) :
                    net.statuses[j].id # net.statuses[i].id

\* C1 witness: a thread of three or more chunks has been posted in full.
C1_Witness ==
    /\ masto.pc = "returned"
    /\ masto.result.ok
    /\ Len(masto.splitted_texts) >= 3
    /\ Len(net.statuses) = Len(masto.splitted_texts)

\* C2: at most one post_status call of the thread is in flight at any
\* time, and a call has been issued only once every call before it has
\* returned its id.
C2_OnePostInFlight ==
    /\ Cardinality({i \in 1..Len(net.statuses) :
                        net.statuses[i].state = "in_flight"}) <= 1
    /\ \A i \in 1..Len(net.statuses) : \A j \in 1..(i - 1) :
        net.statuses[j].state = "created"

\* C2 witness: a reply is in flight and the root has returned its id.
C2_Witness ==
    /\ Len(net.statuses) >= 2
    /\ net.statuses[1].state = "created"
    /\ net.statuses[Len(net.statuses)].state = "in_flight"

\* C3: once the root post or a reply has failed, it stays the last call of
\* the thread, whatever chunks remain, and post has returned an error.
C3_FailureAbortsThread ==
    \A i \in Failed :
        /\ i = Len(net.statuses)
        /\ masto.pc = "returned"
        /\ ~masto.result.ok
        /\ main.pc = "finished"
        /\ main.outcome = "err"

\* C3 witness: a call failed while chunks after it were still to post.
C3_Witness ==
    /\ Failed # {}
    /\ Len(net.statuses) < Len(masto.splitted_texts)
    /\ main.pc = "finished"

\* C4: when a post_status call fails after j >= 1 calls of the thread have
\* succeeded, what post returns to its caller holds the j ids obtained.
C4_PartialResultReported ==
    (masto.pc = "returned" /\ Failed # {} /\ Created # {}) =>
        Len(masto.result.value) = Cardinality(Created)

\* No channel has received anything: no upload, no status, no photo, no
\* message.
NoExternalEffect ==
    /\ net.media = <<>>
    /\ net.statuses = <<>>
    /\ net.photos = <<>>
    /\ net.messages = <<>>

\* C5: a run that fails in rendering or classification (format_card,
\* get_artist) or in pagination (split_text) has produced no external
\* effect on any channel.
C5_FailuresBeforeNetwork ==
    main.failure \in {"format_card", "get_artist", "split_text"} =>
        NoExternalEffect

\* C6: a post_status call is issued only when every upload of the card has
\* succeeded, whatever the order in which the uploads were served, and the
\* root carries the media ids of all of them in the order of the images;
\* when an upload has failed no post_status call is issued.
C6_UploadsJoinedBeforeRoot ==
    /\ net.statuses # <<>> =>
        /\ Len(masto.uploads)
            = Min(Len(main.image_paths), Len(main.card_texts))
        /\ \A i \in 1..Len(masto.uploads) :
            /\ masto.uploads[i].state = "done"
            /\ masto.uploads[i].id[2] \in 1..Len(net.media)
            /\ net.media[masto.uploads[i].id[2]].file = main.image_paths[i]
        /\ net.statuses[1].media_ids
            = Some([i \in 1..Len(masto.uploads) |-> masto.uploads[i].id])
    /\ (\E i \in 1..Len(masto.uploads) : masto.uploads[i].state = "failed")
        => net.statuses = <<>>

\* C6 witness: the root is posted with two media ids, the second image
\* having been served before the first.
C6_Witness ==
    /\ net.statuses # <<>>
    /\ Len(masto.uploads) = 2
    /\ masto.uploads[1].id = <<"media", 2>>
    /\ masto.uploads[2].id = <<"media", 1>>

\* The words of an artist line.
IllustratedBy ==
    <<"I", "l", "l", "u", "s", "t", "r", "a", "t", "e", "d", " ", "b", "y",
      " ">>

\* C13: for every card that format_card renders, the plan mastodon::post
\* builds from the joined display strings has at least one chunk when post
\* goes on to its uploads and to the root post, so that the read of chunk
\* 0 for the root post never fails.
C13_PlanHasRootChunk ==
    /\ masto.pc \in {"join_all", "post_status"} =>
            masto.splitted_texts # <<>>
    /\ main.failure # "splitted_texts[0]"

\* C19: the artist credit of a card of a layout with one image per face is
\* published once per channel, with the last chunk of the last display
\* string: of the statuses of a thread posted in full only the last holds
\* it, and of the Telegram messages sent only the last message of the last
\* attachment holds it.
C19_ArtistCreditOnce ==
    LET separate == /\ input.card.layout \in MultipleFacesLayouts
                    /\ main.artist.some
                    /\ main.artist.value # <<>>
        statuses == {i \in 1..Len(net.statuses) :
                        Contains(net.statuses[i].status, IllustratedBy)}
        messages == {i \in 1..Len(net.messages) :
                        Contains(net.messages[i].text, IllustratedBy)}
    IN  separate =>
            /\ (masto.pc = "returned" /\ masto.result.ok) =>
                    statuses = {Len(net.statuses)}
            /\ (tg.pc = "returned" /\ tg.result.ok) =>
                    \E i \in messages :
                        /\ messages = {i}
                        /\ net.messages[i].attachment = Len(main.card_texts)
                        /\ \A j \in (i + 1)..Len(net.messages) :
                            net.messages[j].attachment
                                # net.messages[i].attachment

\* ------------------------------------------------------------------------
\* Properties of the renderer (checked under SpecFormat)
\* ------------------------------------------------------------------------

\* The number of places of s where sub occurs.
Occurrences(s, sub) ==
    Cardinality({k \in 0..(Len(s) - Len(sub)) :
                    SubSeq(s, k + 1, k + Len(sub)) = sub})

\* The credit made of an artist: "\n\nIllustrated by X", or nothing when
\* there is no artist.
Credit(artist) ==
    IF artist.some THEN <<NL, NL>> \o IllustratedBy \o artist.value
    ELSE <<>>

Formatted == fmt.card_texts # NotCalled

ArtistGot == fmt.artist # NotCalled

\* C14: for every layout tag that is in none of the three lists of
\* format_card, format_card returns the error UnknownCardLayout and no
\* display string; no strategy is applied by default.
C14_UnknownLayoutSignalled ==
    (Formatted /\ fmt.card.layout \notin
            NormalLayouts \cup SingleImageMultipleFacesLayouts
            \cup MultipleFacesLayouts) =>
        /\ ~fmt.card_texts.ok
        /\ fmt.card_texts.error = "UnknownCardLayout"
        /\ fmt.card_texts.value = <<>>

\* C14 witness: a card of the layout Battle, with a type line and a mana
\* cost a normal card could have, got UnknownCardLayout.
C14_Witness ==
    /\ fmt.card.layout = "Battle"
    /\ fmt.card.type_line = Some(InstantType)
    /\ fmt.card.mana_cost = Some(ManaCost)
    /\ fmt.card_texts = Err("UnknownCardLayout")

\* C15: for every card of a layout rendered as a single face, format_card
\* returns exactly one display string; when the mana cost is not empty the
\* string contains the name followed at once by a tab and the mana cost,
\* and when the mana cost is empty or absent it contains no tab.
C15_SingleFaceNameAndManaCost ==
    (Formatted /\ fmt.card.layout \in NormalLayouts) =>
        /\ fmt.card_texts.ok
        /\ Len(fmt.card_texts.value) = 1
        /\ LET mana_cost == UnwrapOrDefault(fmt.card.mana_cost)
               text == fmt.card_texts.value[1]
           IN  IF mana_cost # <<>>
               THEN Contains(text, fmt.card.name \o <<TAB>> \o mana_cost)
               ELSE ~Contains(text, <<TAB>>)

\* C16: for every card of a layout with one image per face that has N
\* faces, format_card returns exactly N display strings, string i rendered
\* from face i, none of them with an artist line, and get_artist returns
\* the credit made of the artist of the first face alone; for every card
\* of the other layouts format_card knows get_artist returns None.
C16_SeparateImagesOnePerFace ==
    /\ (fmt.card.layout \in MultipleFacesLayouts /\ fmt.card.card_faces.some)
        => LET faces == fmt.card.card_faces.value
           IN  /\ Formatted =>
                    /\ fmt.card_texts.ok
                    /\ Len(fmt.card_texts.value) = Len(faces)
                    /\ \A i \in 1..Len(faces) :
                        LET text == fmt.card_texts.value[i]
                        IN  /\ ~Contains(text, IllustratedBy)
                            /\ text # <<>> => IsPrefix(faces[i].name, text)
                            /\ \A j \in 1..Len(faces) :
                                j # i => ~Contains(text, faces[j].name)
               /\ ArtistGot =>
                    fmt.artist = Ok(Some(Credit(faces[1].artist)))
    /\ (fmt.card.layout \in NormalLayouts
                            \cup SingleImageMultipleFacesLayouts /\ ArtistGot)
        => fmt.artist = Ok(None)

\* C16 witness: a transforming card with two faces, whose artists differ
\* from each other and from that of the card, was rendered as two strings
\* and credited to the artist of its first face.
C16_Witness ==
    /\ fmt.card.layout = "Transform"
    /\ fmt.card.card_faces.some
    /\ Len(fmt.card.card_faces.value) = 2
    /\ fmt.card.artist = Some(<<"Z">>)
    /\ fmt.card.card_faces.value[1].artist = Some(<<"X">>)
    /\ fmt.card_texts.ok
    /\ Len(fmt.card_texts.value) = 2
    /\ fmt.card_texts.value[1] # <<>>
    /\ fmt.card_texts.value[2] # <<>>
    /\ fmt.artist = Ok(Some(<<NL, NL>> \o IllustratedBy \o <<"X">>))

\* The block of one face: what the renderer of faces gives for the face
\* alone.
BlockOf(face) ==
    FormatMultipleFacesLayout(
        Card("Transform", CardName, None, None, None, Some(<<face>>))
    ).value[1]

\* C17: for every card of a layout with one image for all faces,
\* format_card returns exactly one display string: the blocks of the
\* faces, none with an artist line, joined by a blank line in the order of
\* the faces, and after them one artist line, made of the artist of the
\* card and of no face.
C17_SharedImageOneString ==
    (Formatted /\ fmt.card.layout \in SingleImageMultipleFacesLayouts
     /\ fmt.card.card_faces.some) =>
        LET faces == fmt.card.card_faces.value
            blocks == [i \in 1..Len(faces) |-> BlockOf(faces[i])]
        IN  /\ fmt.card_texts.ok
            /\ Len(fmt.card_texts.value) = 1
            /\ \A i \in 1..Len(faces) : ~Contains(blocks[i], IllustratedBy)
            /\ fmt.card_texts.value[1]
                = Join(blocks, <<NL, NL>>) \o Credit(fmt.card.artist)
            /\ Occurrences(fmt.card_texts.value[1], IllustratedBy)
                = IF fmt.card.artist.some THEN 1 ELSE 0

\* C17 witness: a split card with two faces, the first of which has an
\* artist other than that of the card, was rendered as one string that
\* ends with the credit of the artist of the card.
C17_Witness ==
    /\ fmt.card.layout = "Split"
    /\ fmt.card.card_faces.some
    /\ Len(fmt.card.card_faces.value) = 2
    /\ fmt.card.artist = Some(<<"Z">>)
    /\ fmt.card.card_faces.value[1].artist = Some(<<"X">>)
    /\ fmt.card.card_faces.value[1].type_line = Some(InstantType)
    /\ fmt.card.card_faces.value[2].type_line = Some(CreatureType)
    /\ fmt.card_texts.ok
    /\ Len(fmt.card_texts.value) = 1
    /\ Contains(fmt.card_texts.value[1],
                <<NL, NL>> \o FaceName(2) \o <<TAB>>)
    /\ Occurrences(fmt.card_texts.value[1], IllustratedBy) = 1

\* C18: for a card of a layout with faces that has no list of faces,
\* format_card and get_artist return an error as a value: neither panics,
\* and neither returns a result without an error.
C18_MissingFacesIsErrorValue ==
    (fmt.card.layout \in SingleImageMultipleFacesLayouts
                         \cup MultipleFacesLayouts
     /\ ~fmt.card.card_faces.some) =>
        /\ Formatted =>
            /\ ~fmt.card_texts.ok
            /\ fmt.card_texts.error # "panic"
        /\ ArtistGot =>
            /\ ~fmt.artist.ok
            /\ fmt.artist.error # "panic"

\* ------------------------------------------------------------------------
\* Properties of the card picker (checked under SpecRandom)
\* ------------------------------------------------------------------------

\* A card passes every filter: its oracle id is not in the ignored list,
\* which an absent list never is, and it has no content warning.
PassesEveryFilter(card) ==
    /\ (rand.config.ignored_oracle_ids.some /\ card.oracle_id.some) =>
            \A i \in 1..Len(rand.config.ignored_oracle_ids.value) :
                rand.config.ignored_oracle_ids.value[i] # card.oracle_id.value
    /\ ~card.content_warning

\* The position in the sequence of the getter of the first card that
\* passes every filter, when the getter serves cards up to it.
FirstPassing ==
    {k \in 1..Len(rand.answers) :
        /\ rand.answers[k].ok
        /\ PassesEveryFilter(rand.answers[k].value)
        /\ \A j \in 1..(k - 1) :
            /\ rand.answers[j].ok
            /\ ~PassesEveryFilter(rand.answers[j].value)}

\* C20: random_card returns the first card of the sequence of the getter
\* that passes every filter, having called the getter once per card up to
\* that one; it returns no card that fails a filter, and it does not end
\* otherwise than by returning that card or the error of the getter.
C20_FirstPassingCardReturned ==
    /\ rand.pc # "panicked"
    /\ (rand.pc = "returned" /\ rand.result.ok) =>
            \E k \in FirstPassing :
                /\ rand.result.value = rand.answers[k].value
                /\ rand.call_index = k
    /\ (rand.pc = "returned" /\ ~rand.result.ok) => FirstPassing = {}

\* ------------------------------------------------------------------------
\* Properties of the run and of the publishers, continued (Spec)
\* ------------------------------------------------------------------------

\* C21: when the dry-run flag is set, whatever the channel flags are, and
\* when no channel flag is set, the run never downloads an image and never
\* posts: main does not reach download_image, neither publisher is
\* entered, and no channel has received anything.
C21_DryRunNoEffect ==
    (input.cli.dry_run \/ (~input.cli.mastodon /\ ~input.cli.telegram)) =>
        /\ main.pc \in {"random_card", "finished"}
        /\ main.image_paths = <<>>
        /\ masto = MastoIdle
        /\ tg = TgIdle
        /\ NoExternalEffect

\* C21 witness: a dry run with both channel flags set has ended with
\* process::exit(0), the card rendered.
C21_Witness ==
    /\ input.cli.dry_run
    /\ input.cli.mastodon
    /\ input.cli.telegram
    /\ main.pc = "finished"
    /\ main.outcome = "exit0"
    /\ main.card_texts # <<>>

\* ------------------------------------------------------------------------
\* Properties of the paginator, continued (SpecSplit)
\* ------------------------------------------------------------------------

C28_RestShrinks ==
    (SplitWidth >= 1 /\ split.pc = "loop") =>
        Len(split.texts) + ByteLen(split.text_to_split)
            <= ByteLen(split.text)

\* ------------------------------------------------------------------------
\* Properties of the renderer, continued (SpecFormat)
\* ------------------------------------------------------------------------

\* The position of the first occurrence of sub in s, 0 when there is none
\* or sub is empty.
Pos(s, sub) ==
    LET at == {k \in 1..(Len(s) - Len(sub) + 1) :
                    SubSeq(s, k, k + Len(sub) - 1) = sub}
    IN  IF sub = <<>> \/ at = {} THEN 0
        ELSE CHOOSE k \in at : \A l \in at : k <= l

\* Where a and b both occur in s, a ends before b starts.
Before(s, a, b) ==
    (Pos(s, a) > 0 /\ Pos(s, b) > 0) => Pos(s, a) + Len(a) <= Pos(s, b)

\* The sections of sections that occur in s occur in that order.
InOrder(s, sections) ==
    \A i, j \in 1..Len(sections) :
        i < j => Before(s, sections[i], sections[j])

\* The categories format_normal_layout knows, as tests on a type line.
IsCreature(type_line) == Contains(type_line, CreatureType)
IsPlaneswalker(type_line) == Contains(type_line, PlaneswalkerType)
IsVanguard(type_line) == Contains(type_line, VanguardType)
IsCardNonCreature(type_line) ==
    \E t \in CardNonCreatureTypes : Contains(type_line, t)
IsFaceNonCreature(type_line) ==
    \E t \in FaceNonCreatureTypes : Contains(type_line, t)

\* A card without faces that format_normal_layout renders was rendered.
SingleFaceFormatted ==
    Formatted /\ fmt.card.layout \in NormalLayouts /\ fmt.card.type_line.some

\* A card with a list of faces was rendered.
FacesFormatted ==
    /\ Formatted
    /\ fmt.card.layout \in SingleImageMultipleFacesLayouts
                            \cup MultipleFacesLayouts
    /\ fmt.card.card_faces.some

\* The rendering of the first category, in the order Creature,
\* Planeswalker, Vanguard, non-creature, Token, that a type line matches.
FirstCategory(card) ==
    LET type_line == card.type_line.value
        card_or_face == CardOrFaceCard(card)
    IN  IF IsCreature(type_line) THEN FormatCreature(card_or_face)
        ELSE IF IsPlaneswalker(type_line)
        THEN FormatPlaneswalker(card_or_face)
        ELSE IF IsVanguard(type_line) THEN FormatVanguard(card_or_face)
        ELSE IF IsCardNonCreature(type_line)
        THEN FormatNonCreature(card_or_face)
        ELSE IF type_line = TokenType THEN FormatToken(card_or_face)
        ELSE <<>>

\* C23: for a card without faces whose type line matches a category, the
\* display string is the rendering of the first category matched, in the
\* order Creature, Planeswalker, Vanguard, non-creature, Token, followed
\* by the artist line; the name and the type line of the card are in it
\* once, also when the type line matches two categories.
C23_FirstCategoryOnly ==
    (SingleFaceFormatted /\ FirstCategory(fmt.card) # <<>>) =>
        /\ fmt.card_texts
            = Ok(<<FirstCategory(fmt.card) \o Credit(fmt.card.artist)>>)
        /\ Occurrences(fmt.card_texts.value[1], fmt.card.name) = 1
        /\ Occurrences(fmt.card_texts.value[1],
                       <<NL>> \o fmt.card.type_line.value) = 1

\* C24: for a card without faces whose type line matches no category, the
\* display string starts with the name, has the type line after it and
\* the artist line after the type line.
C24_NoCategoryNameTypeArtist ==
    (SingleFaceFormatted /\ FirstCategory(fmt.card) = <<>>) =>
        /\ fmt.card_texts.ok
        /\ Len(fmt.card_texts.value) = 1
        /\ LET text == fmt.card_texts.value[1]
               type_line == <<NL>> \o fmt.card.type_line.value
           IN  /\ Pos(text, fmt.card.name) = 1
               /\ Pos(text, type_line) > 1
               /\ fmt.card.artist.some =>
                    Pos(text, Credit(fmt.card.artist))
                        >= Pos(text, type_line) + Len(type_line)

\* The strings of a rendered card that are made of one record each, with
\* that record: the string of a card without faces, and the strings of a
\* card with one image per face.
RenderedRecords ==
    IF ~Formatted \/ ~fmt.card_texts.ok THEN {}
    ELSE IF fmt.card.layout \in NormalLayouts
    THEN {[text |-> fmt.card_texts.value[1],
           of |-> CardOrFaceCard(fmt.card)]}
    ELSE IF fmt.card.layout \in MultipleFacesLayouts
    THEN {[text |-> fmt.card_texts.value[i],
           of |-> CardOrFaceFace(fmt.card.card_faces.value[i])] :
            i \in 1..Len(fmt.card_texts.value)}
    ELSE {}

\* C25, as the specification has it: the sections of a rendered record
\* are in the order name with mana cost, type line, oracle text, power and
\* toughness or loyalty, flavour text, vanguard stat block, artist line.
C25_SpecOrder ==
    \A r \in RenderedRecords :
        InOrder(r.text,
                <<NameAndManaCost(r.of), TypeLine(r.of), OracleText(r.of),
                  PowerAndToughness(r.of), Loyalty(r.of),
                  FlavourText(r.of), VanguardStats(r.of), Artist(r.of)>>)

\* C25, amended: the sections of a rendered record are in the order name
\* with mana cost, type line, oracle text, loyalty, vanguard stat block,
\* flavour text, power and toughness, artist line; the flavour text
\* precedes power and toughness and the vanguard stat block precedes the
\* flavour text whenever both are present.
C25_CodeOrder ==
    \A r \in RenderedRecords :
        /\ Pos(r.text, NameAndManaCost(r.of)) \in {0, 1}
        /\ InOrder(r.text,
                <<NameAndManaCost(r.of), TypeLine(r.of), OracleText(r.of),
                  Loyalty(r.of), VanguardStats(r.of), FlavourText(r.of),
                  PowerAndToughness(r.of), Artist(r.of)>>)

\* C25 witness: a creature with mana cost, oracle text, flavour text and
\* artist was rendered, the flavour text before power and toughness.
C25_Witness ==
    /\ fmt.card.layout = "Normal"
    /\ fmt.card_texts
        = Ok(<< CardName \o <<TAB>> \o ManaCost \o <<NL>> \o CreatureType
                \o <<NL, "o", NL, NL, "f", NL, NL, "2", "/", "3", NL, NL>>
                \o IllustratedBy \o <<"Z">> >>)

\* C30: every face of a card with faces whose type line matches a
\* category contributes its name once, and in a string of its own its
\* type line once, also when the type line matches two categories.
C30_FaceOnce ==
    FacesFormatted =>
        /\ fmt.card_texts.ok
        /\ \A i \in 1..Len(fmt.card.card_faces.value) :
            LET face == fmt.card.card_faces.value[i]
                type_line == face.type_line.value
                separate == fmt.card.layout \in MultipleFacesLayouts
                text == fmt.card_texts.value[IF separate THEN i ELSE 1]
            IN  (IsCreature(type_line) \/ IsPlaneswalker(type_line)
                 \/ IsFaceNonCreature(type_line)
                 \/ type_line \in {TokenType, CardType}) =>
                    /\ Occurrences(text, face.name) = 1
                    /\ separate =>
                        Occurrences(text, <<NL>> \o type_line) = 1

\* ------------------------------------------------------------------------
\* Properties of the publishers, continued (Spec)
\* ------------------------------------------------------------------------

\* The plan of mastodon::post, as split_text returns it for the card of
\* the run: lines 25-37.
MastodonPlan ==
    SplitText(MastodonText(main.card_texts),
              input.config.mastodon_character_limit.value,
              MastodonReservations(main.artist), input.overflow_checks)

\* What follows the chunk in every status: artist, link, hashtags.
MastodonTrailer ==
    MastodonArtist(main.artist) \o input.card.scryfall_uri \o Hashtags

\* C26: the body of post_status call i of a run is chunk i of the plan
\* followed by the artist, the link and the hashtags, the same three on
\* the root and on every reply.
C26_StatusBody ==
    net.statuses # <<>> =>
        LET texts == MastodonPlan.texts
        IN  \A i \in 1..Len(net.statuses) :
                /\ i <= Len(texts)
                /\ net.statuses[i].status = texts[i] \o MastodonTrailer

\* C26 witness: a thread of a root and two replies was posted for a card
\* with an artist.
C26_Witness ==
    /\ Len(net.statuses) >= 3
    /\ main.artist.some /\ main.artist.value # <<>>
    /\ masto.pc = "returned" /\ masto.result.ok

\* C27: every status body, its link counted as 23 characters, is at most
\* mastodon_character_limit characters long, and every Telegram message is
\* at most telegram_character_limit characters long.
C27_WithinLimits ==
    /\ \A i \in 1..Len(net.statuses) :
            CharLen(net.statuses[i].status)
                - CharLen(input.card.scryfall_uri) + LinkReserved
            <= input.config.mastodon_character_limit.value
    /\ \A i \in 1..Len(net.messages) :
            CharLen(net.messages[i].text)
            <= input.config.telegram_character_limit.value

\* The texts of the messages of attachment i, in the order they were sent.
MessagesOf(i) ==
    LET RECURSIVE Pick(_)
        Pick(k) == IF k = 0 THEN <<>>
                   ELSE IF net.messages[k].attachment = i
                   THEN Append(Pick(k - 1), net.messages[k].text)
                   ELSE Pick(k - 1)
    IN  Pick(Len(net.messages))

\* The photos of attachment i that were sent.
PhotosOf(i) ==
    {k \in 1..Len(net.photos) : net.photos[k].file = main.image_paths[i]}

\* The messages map_function sends for attachment i when every send
\* succeeds: lines 62-70.
TelegramPlan(i) ==
    LET artist == UnwrapOrDefault(main.artist)
        s == SplitText(main.card_texts[i],
                       input.config.telegram_character_limit.value,
                       <<Text(artist)>>, input.overflow_checks)
    IN  [k \in 1..Len(s.texts) |-> s.texts[k] \o artist]

\* Attachment i has messages only after its photo, and its messages are
\* the first ones of its plan, in the order of the plan.
PhotoThenChunksInOrder ==
    \A i \in 1..Len(tg.futures) :
        /\ Cardinality(PhotosOf(i)) <= 1
        /\ MessagesOf(i) # <<>> =>
                /\ PhotosOf(i) # {}
                /\ LET plan == TelegramPlan(i)
                   IN  IsPrefix(MessagesOf(i), plan)

\* Once a send of attachment i has failed, nothing more is sent for it.
NothingAfterFailure ==
    \A i \in 1..Len(tg.futures) :
        tg.futures[i].pc = "err" =>
            /\ tg.futures'[i].pc = "err"
            /\ MessagesOf(i)' = MessagesOf(i)
            /\ PhotosOf(i)' = PhotosOf(i)

\* C29: under every interleaving of the futures of telegram::post, the
\* photo of an attachment is sent before any of its chunks, its chunks are
\* sent in the order of the plan, and after a send of an attachment has
\* failed nothing more of that attachment is sent.
C29_PerAttachmentOrder ==
    []PhotoThenChunksInOrder /\ [][NothingAfterFailure]_vars

\* C29 witness: two attachments of three chunks each were sent
\* interleaved: the first message is of the second attachment, a message
\* of the first follows, and the second attachment failed after that
\* while the first went on to its last chunk.
C29_Witness ==
    /\ Len(tg.futures) = 2
    /\ Len(TelegramPlan(1)) = 3
    /\ Len(net.messages) >= 4
    /\ net.messages[1].attachment = 2
    /\ net.messages[2].attachment = 1
    /\ net.messages[3].attachment = 2
    /\ tg.futures[2].pc = "err"
    /\ tg.futures[1].pc = "ok"
    /\ Len(MessagesOf(1)) = 3

====
